---- MODULE Spec2Model ----
(***************************************************************************)
(* The Streamlit script src/app.py as a state machine.  One behaviour is   *)
(* one browser session: the script is re-run from top to bottom after each *)
(* user interaction, st.session_state survives between the runs, and every *)
(* st.button reads True only in the run its own press started.             *)
(***************************************************************************)
EXTENDS Integers, Sequences, FiniteSets, TLC

\* ------------------------------------------------------------------ bounds
MaxRuns == 5        \* script runs in one session
MaxElapsed == 63    \* seconds the remote may keep the media in PROCESSING
MaxVoices == 2      \* voices in the provider's list

\* ------------------------------------------------------- program constants
SoftTimeoutSecs == 60
SleepSecs == 1
DefaultVoiceId == "21m00Tcm4TlvDq8ikWAM"

\* Python's None, for a text (texts are sequences of characters) and for a
\* string-valued name.
NoneText == <<"None">>
None == "None"
\* A call that raises instead of returning a text.
Raises == <<"raise">>

\* Texts the generation endpoint may return (response.content).
Contents == { <<>>, <<"#", "a">>, <<"b">> }
\* Contents of the query text area.
Queries == { "", "armbar" }
\* File.State names the remote reports.
States == { "PROCESSING", "ACTIVE", "FAILED" }
VoiceNames == { "Rachel", "Adam" }
VoiceIds == { "v1", "v2" }
Voice == [name : VoiceNames, voice_id : VoiceIds]
VoiceLists == UNION { [1..n -> Voice] : n \in 0..MaxVoices }
\* What client.voices.get_all() does: raises, or returns a list.
VoiceData == { [ok |-> FALSE, voices |-> <<>>] }
                \cup { [ok |-> TRUE, voices |-> l] : l \in VoiceLists }
NoVoiceData == [ok |-> FALSE, voices |-> <<>>]

NoAudio == [source |-> NoneText, text |-> NoneText, voice_id |-> None]
NoCalls == [upload_file |-> 0, get_file |-> 0, run |-> 0, get_all |-> 0, convert |-> 0]

VARIABLES
    session_state,        \* st.session_state: analysis_result, audio_generated,
                          \* show_audio_options, audio
    API_KEY_ELEVENLABS,   \* TRUE iff the secrets hold a text-to-speech key
    video_file,           \* TRUE iff the uploader holds a file
    user_query,           \* content of the text area
    pressed,              \* the button whose press started this run, or None
    rendered,             \* buttons this run has put on the page
    pc,                   \* position of the script run
    runs,                 \* number of script runs started
    tempFiles,            \* temp files that exist on disk (named by run)
    video_path,           \* this run's temp file, 0 if none
    status,               \* processed_video.state.name, None before upload
    elapsed,              \* time.time() - processing_start, in seconds
    warnings,             \* 'taking longer than expected' warnings of this run
    calls,                \* remote calls made in this run
    messages,             \* other st.warning / st.error / st.info of this run
    exc,                  \* exception in flight: None, "Exception" or "Rerun"
    outcome,              \* how this run ended
    shown,                \* text rendered by st.markdown(analysis_result)
    download,             \* data of the 'Save Analysis' download button
    voice_data,           \* result of client.voices.get_all()
    selected_voice_name,
    selected_voice_id,
    converted,            \* arguments of the text_to_speech.convert calls
    response,             \* response.content of this run's generation call
    start_state           \* st.session_state when this run began

vars == << session_state, API_KEY_ELEVENLABS, video_file, user_query, pressed,
           rendered, pc, runs, tempFiles, video_path, status, elapsed, warnings,
           calls, messages, exc, outcome, shown, download, voice_data,
           selected_voice_name, selected_voice_id, converted, response,
           start_state >>

\* Variables a run sets afresh; every run starts from these values.
RunLocalsFresh ==
    /\ rendered' = {}
    /\ video_path' = 0
    /\ status' = None
    /\ elapsed' = 0
    /\ warnings' = 0
    /\ calls' = NoCalls
    /\ messages' = {}
    /\ exc' = None
    /\ outcome' = "running"
    /\ shown' = NoneText
    /\ download' = NoneText
    /\ voice_data' = NoVoiceData
    /\ selected_voice_name' = None
    /\ selected_voice_id' = None
    /\ converted' = {}
    /\ response' = NoneText

\* ------------------------------------------------------------- conditions

InLoopNever(st) == FALSE
InLoopWrongName(st) == st = "processing"
\* while processed_video.state.name == "PROCESSING"
InLoop(st) == st = "PROCESSING"

SoftTimeoutInclusive(e) == e >= SoftTimeoutSecs
\* if time.time() - processing_start > 60
SoftTimeout(e) == e > SoftTimeoutSecs

QueryNeverMissing(q) == FALSE
\* if not user_query
QueryMissing(q) == q = ""

CatchesNothing(e) == FALSE
\* except Exception: the script-control exception of st.experimental_rerun
\* derives from BaseException and passes through.
Catches(e) == e = "Exception"

\* ------------------------------------------------------ session state init

\* The three 'if ... not in st.session_state' blocks; st.session_state.audio
\* does not exist until it is first assigned.
InitialSession ==
    [analysis_result |-> NoneText, audio_generated |-> FALSE,
     show_audio_options |-> FALSE, audio |-> NoAudio]

StoreAnalysisStripped(ss, content) ==
    [ss EXCEPT !.analysis_result =
                   SelectSeq(content, LAMBDA c : c \notin {"#", "*"}),
               !.audio_generated = FALSE,
               !.show_audio_options = FALSE]
StoreAnalysisFlagsSet(ss, content) ==
    [ss EXCEPT !.analysis_result = content,
               !.audio_generated = TRUE,
               !.show_audio_options = TRUE]
\* st.session_state after a generation call returned content.
StoreAnalysis(ss, content) ==
    [ss EXCEPT !.analysis_result = content,
               !.audio_generated = FALSE,
               !.show_audio_options = FALSE]

Init ==
    /\ session_state = InitialSession
    /\ API_KEY_ELEVENLABS \in BOOLEAN
    /\ video_file = FALSE
    /\ user_query = ""
    /\ pressed = None
    /\ rendered = {}
    /\ pc = "start"
    /\ runs = 1
    /\ tempFiles = {}
    /\ video_path = 0
    /\ status = None
    /\ elapsed = 0
    /\ warnings = 0
    /\ calls = NoCalls
    /\ messages = {}
    /\ exc = None
    /\ outcome = "running"
    /\ shown = NoneText
    /\ download = NoneText
    /\ voice_data = NoVoiceData
    /\ selected_voice_name = None
    /\ selected_voice_id = None
    /\ converted = {}
    /\ response = NoneText
    /\ start_state = InitialSession

\* ------------------------------------------------------------ user actions

\* A user interaction starts the next script run.
StartRun(button) ==
    /\ pc = "done"
    /\ runs < MaxRuns
    /\ runs' = runs + 1
    /\ pc' = "start"
    /\ pressed' = button
    /\ start_state' = session_state
    /\ RunLocalsFresh
    /\ UNCHANGED << session_state, API_KEY_ELEVENLABS, tempFiles >>

UserUploads ==
    /\ ~video_file
    /\ video_file' = TRUE
    /\ StartRun(None)
    /\ UNCHANGED user_query

UserEditsQuery ==
    /\ video_file
    /\ \E q \in Queries \ {user_query} : user_query' = q
    /\ StartRun(None)
    /\ UNCHANGED video_file

UserPresses ==
    /\ \E b \in rendered : StartRun(b)
    /\ UNCHANGED << video_file, user_query >>

\* ---------------------------------------------------------- narration panel

\* clean_text = analysis_result.replace('#', '').replace('*', '')
IsMarkup(c) == c \in { "#", "*" }
Clean(text) == SelectSeq(text, LAMBDA c : ~IsMarkup(c))

\* next((v.voice_id for v in voices if v.name == name), None)
FirstMatch(voices, name) ==
    LET hits == { i \in DOMAIN voices : voices[i].name = name }
    IN  IF hits = {} THEN None
        ELSE voices[CHOOSE i \in hits : \A j \in hits : i <= j].voice_id

\* Indexes the select box offers; with no option it returns None (index 0).
Choices(voices) == IF voices = <<>> THEN {0} ELSE DOMAIN voices
Selectbox(voices, idx) == IF idx = 0 THEN None ELSE voices[idx].name

NoFallback(id) == id
\* if not selected_voice_id: fall back to the default id.
OrDefault(id) == IF id = None THEN DefaultVoiceId ELSE id

\* Voice selection: the default id, replaced by the id of the first voice
\* bearing the chosen name when a key is configured and the list is fetched.
SelectVoice(key, vd, idx) ==
    IF ~key
    THEN [name |-> None, id |-> DefaultVoiceId, msgs |-> {"no_key_error"}]
    ELSE IF ~vd.ok
    THEN [name |-> None, id |-> DefaultVoiceId, msgs |-> {"voice_fetch_warning"}]
    ELSE LET name == Selectbox(vd.voices, idx)
             match == FirstMatch(vd.voices, name)
         IN  [name |-> name, id |-> OrDefault(match),
              msgs |-> IF match = None THEN {"voice_match_warning"} ELSE {}]

\* The 'Voice Selection' expander: voice selection, the Generate Audio and
\* Close buttons, and the speech synthesis.  btn is the pressed button, vd
\* what voices.get_all() does, idx the voice the user picks, ttsOk whether
\* text_to_speech.convert returns.
Panel(ss, key, btn, vd, idx, ttsOk) ==
    LET sel == SelectVoice(key, vd, idx)
        close == btn = "close"
        generate == btn = "generate"
        hasText == ss.analysis_result # NoneText
        clean == IF hasText THEN Clean(ss.analysis_result) ELSE NoneText
        call == ~close /\ generate /\ key /\ hasText
        audio == [source |-> ss.analysis_result, text |-> clean, voice_id |-> sel.id]
    IN  [ session_state |->
            IF close THEN [ss EXCEPT !.show_audio_options = FALSE]
            ELSE IF call /\ ttsOk
                 THEN [ss EXCEPT !.audio = audio, !.audio_generated = TRUE]
                 ELSE ss,
          voice_data |-> IF key THEN vd ELSE NoVoiceData,
          name |-> sel.name,
          id |-> sel.id,
          get_all |-> IF key THEN 1 ELSE 0,
          converted |-> IF call THEN {[text |-> clean, voice_id |-> sel.id]} ELSE {},
          messages |-> sel.msgs \cup
            (IF close \/ ~generate THEN {}
             ELSE IF ~key THEN {"tts_key_required"}
             ELSE IF ~hasText \/ ~ttsOk THEN {"tts_error"}
             ELSE {}),
          exc |-> IF close THEN "Rerun" ELSE None ]

\* ------------------------------------------------------------- script run

\* The upload branch up to the Analyze button: the upload is copied to a
\* NamedTemporaryFile(delete=False).  Without an upload, the landing page.
Ingest ==
    /\ pc = "start"
    /\ IF video_file
       THEN /\ video_path' = runs
            /\ tempFiles' = tempFiles \cup {runs}
            /\ rendered' = rendered \cup {"analyze"}
            /\ pc' = "dispatch"
            /\ UNCHANGED outcome
       ELSE /\ rendered' = rendered \cup {"free_class"}
            /\ pc' = "done"
            /\ outcome' = "landing"
            /\ UNCHANGED << video_path, tempFiles >>
    /\ UNCHANGED << session_state, API_KEY_ELEVENLABS, video_file, user_query,
                    pressed, runs, status, elapsed, warnings, calls, messages,
                    exc, shown, download, voice_data, selected_voice_name,
                    selected_voice_id, converted, response, start_state >>

\* if analyze_button: if not user_query: warning, else: try
Dispatch ==
    /\ pc = "dispatch"
    /\ IF pressed # "analyze"
       THEN /\ pc' = "done"
            /\ outcome' = "no_request"
            /\ UNCHANGED messages
       ELSE IF QueryMissing(user_query)
       THEN /\ pc' = "done"
            /\ outcome' = "validation"
            /\ messages' = messages \cup {"query_warning"}
       ELSE /\ pc' = "upload"
            /\ UNCHANGED << outcome, messages >>
    /\ UNCHANGED << session_state, API_KEY_ELEVENLABS, video_file, user_query,
                    pressed, rendered, runs, tempFiles, video_path, status,
                    elapsed, warnings, calls, exc, shown, download, voice_data,
                    selected_voice_name, selected_voice_id, converted, response,
                    start_state >>

\* processed_video = upload_file(video_path); processing_start = time.time()
Upload ==
    /\ pc = "upload"
    /\ calls' = [calls EXCEPT !.upload_file = @ + 1]
    /\ \E r \in States \cup {"raise"} :
         IF r = "raise"
         THEN exc' = "Exception" /\ pc' = "except" /\ UNCHANGED status
         ELSE status' = r /\ pc' = "while" /\ UNCHANGED exc
    /\ elapsed' = 0
    /\ UNCHANGED << session_state, API_KEY_ELEVENLABS, video_file, user_query,
                    pressed, rendered, runs, tempFiles, video_path, warnings,
                    messages, outcome, shown, download, voice_data,
                    selected_voice_name, selected_voice_id, converted, response,
                    start_state >>

\* The loop test and the soft-timeout warning of one iteration.
LoopTest ==
    /\ pc = "while"
    /\ IF InLoop(status)
       THEN /\ warnings' = IF SoftTimeout(elapsed) THEN warnings + 1 ELSE warnings
            /\ pc' = "sleep"
       ELSE /\ pc' = "generate"
            /\ UNCHANGED warnings
    /\ UNCHANGED << session_state, API_KEY_ELEVENLABS, video_file, user_query,
                    pressed, rendered, runs, tempFiles, video_path, status,
                    elapsed, calls, messages, exc, outcome, shown, download,
                    voice_data, selected_voice_name, selected_voice_id,
                    converted, response, start_state >>

\* time.sleep(1)
Sleep ==
    /\ pc = "sleep"
    /\ elapsed' = elapsed + SleepSecs
    /\ pc' = "get_file"
    /\ UNCHANGED << session_state, API_KEY_ELEVENLABS, video_file, user_query,
                    pressed, rendered, runs, tempFiles, video_path, status,
                    warnings, calls, messages, exc, outcome, shown, download,
                    voice_data, selected_voice_name, selected_voice_id,
                    converted, response, start_state >>

\* processed_video = get_file(processed_video.name)
GetFile ==
    /\ pc = "get_file"
    /\ calls' = [calls EXCEPT !.get_file = @ + 1]
    /\ \E r \in States \cup {"raise"} :
         /\ r = "PROCESSING" => elapsed < MaxElapsed
         /\ IF r = "raise"
            THEN exc' = "Exception" /\ pc' = "except" /\ UNCHANGED status
            ELSE status' = r /\ pc' = "while" /\ UNCHANGED exc
    /\ UNCHANGED << session_state, API_KEY_ELEVENLABS, video_file, user_query,
                    pressed, rendered, runs, tempFiles, video_path, elapsed,
                    warnings, messages, outcome, shown, download, voice_data,
                    selected_voice_name, selected_voice_id, converted, response,
                    start_state >>

\* response = multimodal_Agent.run(analysis_prompt, videos=[processed_video])
\* and the three session-state assignments that follow it.
Generate ==
    /\ pc = "generate"
    /\ calls' = [calls EXCEPT !.run = @ + 1]
    /\ \E r \in Contents \cup {Raises} :
         IF r = Raises
         THEN /\ exc' = "Exception"
              /\ pc' = "except"
              /\ UNCHANGED << session_state, response >>
         ELSE /\ response' = r
              /\ session_state' = StoreAnalysis(session_state, r)
              /\ pc' = "render"
              /\ UNCHANGED exc
    /\ UNCHANGED << API_KEY_ELEVENLABS, video_file, user_query, pressed,
                    rendered, runs, tempFiles, video_path, status, elapsed,
                    warnings, messages, outcome, shown, download, voice_data,
                    selected_voice_name, selected_voice_id, converted,
                    start_state >>

\* The rest of the try block: the analysis section, the three buttons under
\* it and, when show_audio_options is set, the narration panel.
Render ==
    /\ pc = "render"
    /\ shown' = session_state.analysis_result
    /\ download' = session_state.analysis_result
    /\ IF pressed = "listen"
       THEN /\ session_state' = [session_state EXCEPT !.show_audio_options = TRUE]
            /\ rendered' = rendered \cup {"helpful", "listen"}
            /\ exc' = "Rerun"
            /\ pc' = "except"
            /\ UNCHANGED << outcome, calls, messages, voice_data,
                            selected_voice_name, selected_voice_id, converted >>
       ELSE IF session_state.show_audio_options
       THEN \E vd \in VoiceData, ttsOk \in BOOLEAN :
              \E idx \in Choices(vd.voices) :
                LET p == Panel(session_state, API_KEY_ELEVENLABS, pressed,
                               vd, idx, ttsOk)
                IN  /\ session_state' = p.session_state
                    /\ rendered' = rendered \cup
                                     {"helpful", "listen", "generate", "close"}
                    /\ voice_data' = p.voice_data
                    /\ selected_voice_name' = p.name
                    /\ selected_voice_id' = p.id
                    /\ converted' = converted \cup p.converted
                    /\ calls' = [calls EXCEPT
                                   !.get_all = @ + p.get_all,
                                   !.convert = @ + Cardinality(p.converted)]
                    /\ messages' = messages \cup p.messages
                    /\ exc' = p.exc
                    /\ pc' = IF p.exc = None THEN "finally" ELSE "except"
                    /\ outcome' = IF p.exc = None THEN "result" ELSE outcome
       ELSE /\ rendered' = rendered \cup {"helpful", "listen"}
            /\ pc' = "finally"
            /\ outcome' = "result"
            /\ UNCHANGED << session_state, calls, messages, exc, voice_data,
                            selected_voice_name, selected_voice_id, converted >>
    /\ UNCHANGED << API_KEY_ELEVENLABS, video_file, user_query, pressed, runs,
                    tempFiles, video_path, status, elapsed, warnings,
                    response, start_state >>

ExceptClearsResult ==
    /\ pc = "except"
    /\ IF Catches(exc)
       THEN /\ messages' = messages \cup {"analysis_error", "retry_info"}
            /\ exc' = None
            /\ outcome' = "error"
            /\ session_state' = [session_state EXCEPT !.analysis_result = NoneText]
       ELSE UNCHANGED << messages, exc, outcome, session_state >>
    /\ pc' = "finally"
    /\ UNCHANGED << API_KEY_ELEVENLABS, video_file, user_query,
                    pressed, rendered, runs, tempFiles, video_path, status,
                    elapsed, warnings, calls, shown, download, voice_data,
                    selected_voice_name, selected_voice_id, converted, response,
                    start_state >>
\* except Exception as error: st.error(...); st.info(...)
Except ==
    /\ pc = "except"
    /\ IF Catches(exc)
       THEN /\ messages' = messages \cup {"analysis_error", "retry_info"}
            /\ exc' = None
            /\ outcome' = "error"
       ELSE UNCHANGED << messages, exc, outcome >>
    /\ pc' = "finally"
    /\ UNCHANGED << session_state, API_KEY_ELEVENLABS, video_file, user_query,
                    pressed, rendered, runs, tempFiles, video_path, status,
                    elapsed, warnings, calls, shown, download, voice_data,
                    selected_voice_name, selected_voice_id, converted, response,
                    start_state >>

\* finally: Path(video_path).unlink(missing_ok=True); an exception still in
\* flight then leaves the script: a rerun request starts the next run, any
\* other ends the run with a traceback.
Finally ==
    /\ pc = "finally"
    /\ tempFiles' = tempFiles \ {video_path}
    /\ IF exc = "Rerun"
       THEN /\ runs' = runs + 1
            /\ pc' = "start"
            /\ pressed' = None
            /\ start_state' = session_state
            /\ RunLocalsFresh
       ELSE /\ pc' = "done"
            /\ outcome' = IF exc = None THEN outcome ELSE "crash"
            /\ UNCHANGED << pressed, rendered, runs, video_path, status,
                            elapsed, warnings, calls, messages, exc, shown,
                            download, voice_data, selected_voice_name,
                            selected_voice_id, converted, response,
                            start_state >>
    /\ UNCHANGED << session_state, API_KEY_ELEVENLABS, video_file, user_query >>

Next ==
    \/ UserUploads
    \/ UserEditsQuery
    \/ UserPresses
    \/ Ingest
    \/ Dispatch
    \/ Upload
    \/ LoopTest
    \/ Sleep
    \/ GetFile
    \/ Generate
    \/ Render
    \/ Except
    \/ Finally

Spec == Init /\ [][Next]_vars

\* The steps of a script run, as opposed to the user's interactions.
RunStep ==
    \/ Ingest
    \/ Dispatch
    \/ Upload
    \/ LoopTest
    \/ Sleep
    \/ GetFile
    \/ Generate
    \/ Render
    \/ Except
    \/ Finally

\* The script thread keeps running: a run that has a next statement executes
\* it, and a blocking call (sleep, remote call) returns or raises.  The user
\* need not ever interact.
SpecLive == Init /\ [][Next]_vars /\ WF_vars(RunStep)

\* The narration panel taken on its own: the script from the analysis
\* section on, entered with show_audio_options set, for every analysis text,
\* key configuration and pressed panel button.
InitPanel ==
    /\ session_state \in [analysis_result : Contents, audio_generated : {FALSE},
                          show_audio_options : {TRUE}, audio : {NoAudio}]
    /\ start_state = session_state
    /\ API_KEY_ELEVENLABS \in BOOLEAN
    /\ pressed \in {None, "generate", "close"}
    /\ video_file = TRUE
    /\ user_query = "armbar"
    /\ rendered = {"analyze"}
    /\ pc = "render"
    /\ runs = 1
    /\ tempFiles = {1}
    /\ video_path = 1
    /\ status = "ACTIVE"
    /\ elapsed = 0
    /\ warnings = 0
    /\ calls = [NoCalls EXCEPT !.upload_file = 1, !.run = 1]
    /\ messages = {}
    /\ exc = None
    /\ outcome = "running"
    /\ shown = NoneText
    /\ download = NoneText
    /\ voice_data = NoVoiceData
    /\ selected_voice_name = None
    /\ selected_voice_id = None
    /\ converted = {}
    /\ response = session_state.analysis_result

NextPanel ==
    \/ Render
    \/ Except
    \/ Finally

SpecPanel == InitPanel /\ [][NextPanel]_vars

\* ------------------------------------------------------------------ claims

\* C1: whenever a run that created a temp file has ended, that temp file no
\* longer exists, whichever path the run took.
C1_TempFileRemoved ==
    (pc = "done" /\ video_path # 0) => video_path \notin tempFiles

\* C2: wherever the generation call is about to be made or has been made, the
\* last status obtained from the remote is not PROCESSING.
C2_NoProcessingHandle ==
    (pc = "generate" \/ calls.run > 0) => status \in States \ {"PROCESSING"}

C2_Witness ==
    pc = "generate" /\ calls.get_file >= 2 /\ status = "ACTIVE"

\* C3: once the remote has reported FAILED, the generation call is not made,
\* no analysis result is stored, and the run ends with the error message.
C3_FailedAborts ==
    status = "FAILED" =>
        /\ calls.run = 0
        /\ session_state = start_state
        /\ pc = "done" => outcome = "error"

\* C4: a slow-processing warning is emitted only while the status is
\* PROCESSING and more than 60 seconds have elapsed, and the step that emits
\* it goes on to the sleep; whatever the elapsed time, a PROCESSING status at
\* the loop test leads to the sleep, and the sleep to the next get_file.
C4_SoftTimeoutNonFatal ==
    [][ /\ warnings' > warnings =>
             (elapsed > 60 /\ status = "PROCESSING" /\ pc' = "sleep")
        /\ (pc = "while" /\ status = "PROCESSING") => pc' = "sleep"
        /\ pc = "sleep" => (pc' = "get_file" /\ elapsed' = elapsed + 1)
        /\ pc = "get_file" =>
             (calls'.get_file = calls.get_file + 1 /\ pc' \in {"while", "except"})
      ]_vars

C4_Witness ==
    pc = "get_file" /\ warnings >= 2 /\ status = "PROCESSING"

\* C5: upload and generation are each called at most once per run, no run
\* ends with an uncaught exception, and a raised remote-call error is handled
\* at once: the error message is shown, no further remote call is made, and
\* the run goes through the finally block to its normal end.
C5_RemoteErrorsCaught ==
    /\ [](/\ calls.upload_file <= 1
          /\ calls.run <= 1
          /\ outcome # "crash"
          /\ outcome = "error" => "analysis_error" \in messages)
    /\ [][ /\ exc = "Exception" =>
                (pc = "except" /\ pc' = "finally" /\ outcome' = "error"
                 /\ calls' = calls)
           /\ (pc = "finally" /\ outcome = "error") =>
                (pc' = "done" /\ outcome' = "error" /\ calls' = calls)
         ]_vars

C5_Witness ==
    pc = "done" /\ outcome = "error" /\ calls.get_file >= 1 /\ calls.run = 0

\* C6: a run started by pressing Analyze with an empty query makes no remote
\* call and leaves the session state as it was, and it ends with the
\* validation warning and the Analyze button on the page.
C6_EmptyQueryRejected ==
    (pressed = "analyze" /\ user_query = "") =>
        /\ calls = NoCalls
        /\ session_state = start_state
        /\ pc = "done" =>
             (outcome = "validation" /\ "query_warning" \in messages
              /\ "analyze" \in rendered)

C6_Witness ==
    pc = "done" /\ pressed = "analyze" /\ user_query = ""

\* C7: with a text-to-speech key configured, the run started by pressing
\* 'Listen to Analysis' ends with the 'Generate Audio' button on the page, and
\* a run started by pressing 'Generate Audio' ends having called speech
\* synthesis on the analysis text held in the session.
C7_NarrationReachable ==
    (pc = "done" /\ API_KEY_ELEVENLABS) =>
        /\ pressed = "listen" => "generate" \in rendered
        /\ pressed = "generate" =>
             \E c \in converted : c.text = Clean(session_state.analysis_result)

PanelRan == pc \in {"except", "finally", "done"}

FetchFailed == API_KEY_ELEVENLABS /\ calls.get_all = 1 /\ ~voice_data.ok

C11_ResultIsGeneratedText ==
    (pc \in {"finally", "done"} /\ outcome = "result" /\ status = "ACTIVE") =>
        /\ user_query # ""
        /\ response \in Contents
        /\ session_state.analysis_result = response
        /\ shown = response
        /\ download = response

C11_Witness ==
    /\ pc = "done"
    /\ outcome = "result"
    /\ status = "ACTIVE"
    /\ calls.get_file = 2
    /\ response = <<"#", "a">>
    /\ shown = response

\* C12: while the last status is PROCESSING the run is in the loop, unless a
\* call raised (the error is being or has been reported); and once the loop
\* test sees any other status, the run goes on to its end, with a result
\* stored or an error reported and the temp file unlinked by the finally
\* block.
C12_PollerTermination ==
    /\ [](status = "PROCESSING" =>
            (pc \in {"while", "sleep", "get_file", "except"} \/ outcome = "error"))
    /\ (pc = "while" /\ status \in States \ {"PROCESSING"})
          ~> (/\ pc = "done"
              /\ outcome \in {"result", "error"}
              /\ video_path \notin tempFiles)

C12_Witness ==
    /\ pc = "done"
    /\ calls.get_file >= 1
    /\ status = "FAILED"
    /\ outcome \in {"result", "error"}
    /\ video_path \notin tempFiles

\* C13: a run started by pressing Analyze that ended in the empty-query
\* warning or in the error message holds the session state it began with;
\* and analysis_result changes only in the step in which the generation call
\* returns.
C13_FailedRequestKeepsSession ==
    /\ []((pc = "done" /\ pressed = "analyze"
           /\ outcome \in {"validation", "error"}) =>
             /\ session_state.analysis_result = start_state.analysis_result
             /\ session_state.audio_generated = start_state.audio_generated
             /\ session_state.show_audio_options = start_state.show_audio_options)
    /\ [][ session_state'.analysis_result # session_state.analysis_result =>
             /\ pc = "generate"
             /\ calls'.run = calls.run + 1
             /\ response' = session_state'.analysis_result
             /\ exc' = None
         ]_vars

C13_Witness ==
    /\ pc = "done"
    /\ pressed = "analyze"
    /\ outcome = "error"
    /\ calls.run = 1
    /\ start_state.analysis_result \in Contents
    /\ session_state = start_state

====
